---- MODULE Spec2Model ----
(***************************************************************************)
(* Query understanding core of the financial chatbot (nlp_processor.py):   *)
(* extract_financial_terms, preprocess_text, identify_query_type and       *)
(* analyze_query, modelled as a state machine over one query/company pair. *)
(* Text is kept as TLA+ strings; a character is a string of length 1.      *)
(***************************************************************************)
EXTENDS Integers, Sequences, FiniteSets, TLC

VARIABLES
    SKLEARN_AVAILABLE,    \* module flag set by the import at load time
    query,                \* argument of analyze_query
    company,              \* argument of analyze_query
    pc,                   \* position inside analyze_query / identify_query_type
    preprocessed_query,   \* local of identify_query_type
    financial_terms,      \* local of identify_query_type (insertion-ordered dict)
    term_based_match,     \* local of identify_query_type
    best_match,           \* local of identify_query_type
    highest_score,        \* local of identify_query_type
    confidence,           \* local of identify_query_type
    loop_index,           \* next entry of formatted_templates.items() to visit
    max_seen,             \* largest similarity value the engine has returned, in 1 / Scale
    first_top,            \* the intent whose templates were first to reach max_seen
    tied,                 \* a later intent's best similarity has equalled max_seen
    unraised,             \* max_seen and first_top over the passes that did not raise (None: not recorded)
    result,               \* value returned by analyze_query
    analysis_data,        \* argument of generate_response: company -> metrics record
    response,             \* value returned by generate_response
    heap,                 \* concurrent calls: the list objects, by reference
    calls,                \* concurrent calls: each call's position and locals
    script,               \* the Streamlit script that is run: app.py or attached_assets/app.py
    session_state         \* st.session_state: df, analysis_data, chat_history

\* What lies outside one call of analyze_query: its caller and its peers.
app_vars == << script, session_state >>

env_vars == << analysis_data, response, heap, calls, app_vars >>

vars ==
    << SKLEARN_AVAILABLE, query, company, pc, preprocessed_query, financial_terms,
       term_based_match, best_match, highest_score, confidence, loop_index, max_seen,
       first_top, tied, unraised, result, env_vars >>

\* Python's None.
None == "None"

-----------------------------------------------------------------------------
(* Static configuration                                                     *)

\* FINANCIAL_TERMS with 'income' and 'earnings' under net_income only.
FINANCIAL_TERMS_NoSharedSynonyms ==
    << [category |-> "revenue",
        terms |-> << "revenue", "sales", "money", "earn", "top line", "turnover" >>],
       [category |-> "net_income",
        terms |-> << "net income", "profit", "earnings", "bottom line", "net earnings", "income" >>],
       [category |-> "assets",
        terms |-> << "assets", "property", "holdings", "possessions", "resources" >>],
       [category |-> "liabilities",
        terms |-> << "liabilities", "debt", "obligations", "payables" >>],
       [category |-> "cash_flow",
        terms |-> << "cash flow", "cash", "liquidity", "funds flow", "operating cash" >>],
       [category |-> "growth",
        terms |-> << "growth", "increase", "rise", "improvement", "expansion" >>],
       [category |-> "performance",
        terms |-> << "performance", "results", "achievements", "accomplishments", "records" >>],
       [category |-> "comparison",
        terms |-> << "compare", "comparison", "versus", "vs", "against", "relative to" >>],
       [category |-> "trend",
        terms |-> << "trend", "pattern", "direction", "movement", "trajectory", "history" >>],
       [category |-> "forecast",
        terms |-> << "forecast", "predict", "projection", "outlook", "future", "expectation" >>] >>

\* FINANCIAL_TERMS (lines 52-63), a dict, in insertion order.
FINANCIAL_TERMS ==
    << [category |-> "revenue",
        terms |-> << "revenue", "sales", "income", "earnings", "money", "earn", "top line", "turnover" >>],
       [category |-> "net_income",
        terms |-> << "net income", "profit", "earnings", "bottom line", "net earnings", "income" >>],
       [category |-> "assets",
        terms |-> << "assets", "property", "holdings", "possessions", "resources" >>],
       [category |-> "liabilities",
        terms |-> << "liabilities", "debt", "obligations", "payables" >>],
       [category |-> "cash_flow",
        terms |-> << "cash flow", "cash", "liquidity", "funds flow", "operating cash" >>],
       [category |-> "growth",
        terms |-> << "growth", "increase", "rise", "improvement", "expansion" >>],
       [category |-> "performance",
        terms |-> << "performance", "results", "achievements", "accomplishments", "records" >>],
       [category |-> "comparison",
        terms |-> << "compare", "comparison", "versus", "vs", "against", "relative to" >>],
       [category |-> "trend",
        terms |-> << "trend", "pattern", "direction", "movement", "trajectory", "history" >>],
       [category |-> "forecast",
        terms |-> << "forecast", "predict", "projection", "outlook", "future", "expectation" >>] >>

QUERY_TEMPLATES ==
    << [query_type |-> "revenue_query",
        templates |->
          << "What is the revenue of {company}?",
             "Show me {company}'s revenue",
             "Tell me about {company}'s revenue",
             "What's the total revenue for {company}?",
             "How much revenue did {company} generate?",
             "What are the earnings of {company}?" >>],
       [query_type |-> "net_income_query",
        templates |->
          << "What is the net income of {company}?",
             "How has {company}'s net income changed?",
             "Tell me about {company}'s profit",
             "What's the profit for {company}?",
             "How much did {company} earn?",
             "What is {company}'s bottom line?" >>],
       [query_type |-> "assets_liabilities_query",
        templates |->
          << "What are the assets and liabilities of {company}?",
             "Tell me about {company}'s assets",
             "What is the debt of {company}?",
             "Show me {company}'s financial position",
             "What's the balance sheet of {company}?",
             "How much does {company} own and owe?" >>],
       [query_type |-> "cash_flow_query",
        templates |->
          << "How has the cash flow of {company} changed?",
             "Tell me about {company}'s cash flow",
             "What is the operating cash flow of {company}?",
             "Show me {company}'s cash situation",
             "What's the cash position for {company}?",
             "How much cash is {company} generating from operations?" >>],
       [query_type |-> "growth_query",
        templates |->
          << "What is the revenue growth of {company}?",
             "How fast is {company} growing?",
             "Tell me about {company}'s growth",
             "What's the growth rate for {company}?",
             "Is {company} growing year over year?",
             "How has {company}'s size changed over time?" >>],
       [query_type |-> "performance_query",
        templates |->
          << "How is {company} performing?",
             "Tell me about {company}'s performance",
             "What's the overall financial performance of {company}?",
             "How did {company} do financially?",
             "Give me an overview of {company}'s results",
             "What are {company}'s key financial metrics?" >>],
       [query_type |-> "comparison_query",
        templates |->
          << "Compare {company} with other companies",
             "How does {company} compare to its peers?",
             "Is {company} performing better than others?",
             "Show me a comparison of {company} with its competitors",
             "What's the relative performance of {company}?",
             "Is {company} outperforming or underperforming?" >>],
       [query_type |-> "trend_query",
        templates |->
          << "What is the trend in {company}'s revenue?",
             "Show me the trend in {company}'s performance",
             "Has {company}'s profit been increasing or decreasing?",
             "What pattern do you see in {company}'s financials?",
             "Is there a consistent trend in {company}'s metrics?",
             "How have {company}'s financials evolved over time?" >>],
       [query_type |-> "forecast_query",
        templates |->
          << "What's the forecast for {company}?",
             "Predict {company}'s future performance",
             "What can we expect from {company} in the future?",
             "Show me projections for {company}",
             "What's the outlook for {company}?",
             "How might {company} perform going forward?" >>] >>

stop_words ==
    { "i", "me", "my", "myself", "we", "our", "ours", "ourselves", "you", "your",
      "yours", "yourself", "yourselves", "he", "him", "his", "himself", "she", "her",
      "hers", "herself", "it", "its", "itself", "they", "them", "their", "theirs",
      "themselves", "what", "which", "who", "whom", "this", "that", "these", "those",
      "am", "is", "are", "was", "were", "be", "been", "being", "have", "has", "had",
      "having", "do", "does", "did", "doing", "a", "an", "the", "and", "but", "if",
      "or", "because", "as", "until", "while", "of", "at", "by", "for", "with",
      "about", "against", "between", "into", "through", "during", "before", "after",
      "above", "below", "to", "from", "up", "down", "in", "out", "on", "off", "over",
      "under", "again", "further", "then", "once", "here", "there", "when", "where",
      "why", "how", "all", "any", "both", "each", "few", "more", "most", "other",
      "some", "such", "no", "nor", "not", "only", "own", "same", "so", "than", "too",
      "very", "s", "t", "can", "will", "just", "don", "should", "now" }

-----------------------------------------------------------------------------
(* Characters and strings                                                   *)

UpperLetters == "ABCDEFGHIJKLMNOPQRSTUVWXYZ"

LowerLetters == "abcdefghijklmnopqrstuvwxyz"

Digits == "0123456789"

CharsOf(s) == { SubSeq(s, i, i) : i \in 1..Len(s) }

\* \w of the re module on ASCII text: letters, digits and the underscore.
WordChars == CharsOf(UpperLetters) \cup CharsOf(LowerLetters) \cup CharsOf(Digits) \cup {"_"}

\* \d of the re module on ASCII text.
DigitChars == CharsOf(Digits)

\* What str.split() with no argument splits on.
Whitespace == {" ", "\t", "\n", "\r", "\f"}

\* The argument of word.strip(...) in preprocess_text.
StripChars == {".", ",", ";", ":", "!", "?", "(", ")", "[", "]", "{", "}", "\"", "'"}

UpperChars == CharsOf(UpperLetters)

\* The lower-case letter of each upper-case letter.
LowerOf ==
    [c \in UpperChars |->
        LET i == CHOOSE k \in 1..Len(UpperLetters) : SubSeq(UpperLetters, k, k) = c
        IN  SubSeq(LowerLetters, i, i)]

LowerChar(c) == IF c \in UpperChars THEN LowerOf[c] ELSE c

\* The elements of a finite set of integers, in increasing order.
Ascending(S) ==
    IF S = {} THEN <<>>
    ELSE [k \in 1..Cardinality(S) |->
             CHOOSE i \in S : Cardinality({ j \in S : j < i }) = k - 1]

\* The concatenation of a sequence of strings.
RECURSIVE Concat(_)
Concat(parts) ==
    IF Len(parts) = 0 THEN ""
    ELSE IF Len(parts) = 1 THEN parts[1]
    ELSE LET h == Len(parts) \div 2
         IN  Concat(SubSeq(parts, 1, h)) \o Concat(SubSeq(parts, h + 1, Len(parts)))

\* str.lower()
Lower(s) == Concat([i \in 1..Len(s) |-> LowerChar(SubSeq(s, i, i))])

CharAt(s, i) == IF i >= 1 /\ i <= Len(s) THEN SubSeq(s, i, i) ELSE ""

\* \b at the gap after the first k characters of s: exactly one side is a word
\* character (the outside of the string counts as a non-word character).
WordBoundary(s, k) ==
    (CharAt(s, k) \in WordChars) # (CharAt(s, k + 1) \in WordChars)

\* SearchWholeWord with re.fullmatch in the place of re.search.
SearchWholeWord_FullMatch(term, text) == text = term

\* SearchWholeWord for the pattern re.escape(term), without the two \b.
SearchWholeWord_AnyPlace(term, text) ==
    \E i \in 1..(Len(text) - Len(term) + 1) : SubSeq(text, i, i + Len(term) - 1) = term

\* re.search(r'\b' + re.escape(term) + r'\b', text) is not None
SearchWholeWord(term, text) ==
    \E i \in 1..(Len(text) - Len(term) + 1) :
        /\ SubSeq(text, i, i + Len(term) - 1) = term
        /\ WordBoundary(text, i - 1)
        /\ WordBoundary(text, i + Len(term) - 1)

\* word in query_lower, for strings: substring test.
Contains(text, word) ==
    \E i \in 1..(Len(text) - Len(word) + 1) : SubSeq(text, i, i + Len(word) - 1) = word

\* The maximal runs of characters of s that are in chars and at least min
\* long, from left to right: the k-th run goes from the k-th place where a
\* run starts to the k-th place where one ends.
Runs(s, chars, min) ==
    LET in == [i \in 0..(Len(s) + 1) |->
                  i >= 1 /\ i <= Len(s) /\ SubSeq(s, i, i) \in chars]
        starts == Ascending({ i \in 1..Len(s) : in[i] /\ ~in[i - 1] })
        ends == Ascending({ i \in 1..Len(s) : in[i] /\ ~in[i + 1] })
        runs == [k \in 1..Len(starts) |-> SubSeq(s, starts[k], ends[k])]
    IN  SelectSeq(runs, LAMBDA w : Len(w) >= min)

\* str.split(): the maximal runs of non-whitespace characters, in order.
Split(s) == Runs(s, CharsOf(s) \ Whitespace, 1)

\* str.strip(chars): drop leading and trailing characters that are in chars.
Strip(w, chars) ==
    LET keep == { i \in 1..Len(w) : SubSeq(w, i, i) \notin chars }
    IN  IF keep = {} THEN ""
        ELSE LET lo == CHOOSE i \in keep : \A j \in keep : i <= j
                 hi == CHOOSE i \in keep : \A j \in keep : i >= j
             IN  SubSeq(w, lo, hi)

\* " ".join(words)
Join(words) ==
    IF Len(words) = 0 THEN ""
    ELSE Concat([i \in 1..(2 * Len(words) - 1) |->
                    IF i % 2 = 1 THEN words[(i + 1) \div 2] ELSE " "])

-----------------------------------------------------------------------------
(* nlp_processor.py: pure functions                                         *)

\* preprocess_text without the len(word) > 1 test of line 169.
preprocess_text_AnyLength(text) ==
    LET words == Split(Lower(text))
        clean == [i \in 1..Len(words) |-> Strip(words[i], StripChars)]
        NonEmpty(w) == w # ""
        tokens == SelectSeq(clean, NonEmpty)
        Kept(w) == w \notin stop_words
        filtered_tokens == SelectSeq(tokens, Kept)
    IN  Join(filtered_tokens)

\* preprocess_text with the stop words filtered before the punctuation is
\* stripped.
preprocess_text_FilterFirst(text) ==
    LET words == Split(Lower(text))
        Kept(w) == w \notin stop_words /\ Len(w) > 1
        filtered == SelectSeq(words, Kept)
        clean == [i \in 1..Len(filtered) |-> Strip(filtered[i], StripChars)]
        NonEmpty(w) == w # ""
    IN  Join(SelectSeq(clean, NonEmpty))

\* preprocess_text(text)
preprocess_text(text) ==
    LET words == Split(Lower(text))
        clean == [i \in 1..Len(words) |-> Strip(words[i], StripChars)]
        NonEmpty(w) == w # ""
        tokens == SelectSeq(clean, NonEmpty)
        Kept(w) == w \notin stop_words /\ Len(w) > 1
        filtered_tokens == SelectSeq(tokens, Kept)
    IN  Join(filtered_tokens)

\* The terms of one category found in the (lower-cased) text, in list order.
MatchedTerms(terms, text) ==
    LET Found(term) == SearchWholeWord(term, text)
    IN  SelectSeq(terms, Found)

\* extract_financial_terms without the text.lower() of line 175.
extract_financial_terms_NoLower(text) ==
    LET items == [i \in 1..Len(FINANCIAL_TERMS) |->
                    [key   |-> FINANCIAL_TERMS[i].category,
                     value |-> MatchedTerms(FINANCIAL_TERMS[i].terms, text)]]
        Inserted(item) == item.value # <<>>
    IN  SelectSeq(items, Inserted)

\* extract_financial_terms with line 182 moved before the loop over the terms:
\* every category gets its list, matched or not.
extract_financial_terms_KeepEmpty(text) ==
    LET lowered == Lower(text)
    IN  [i \in 1..Len(FINANCIAL_TERMS) |->
            [key   |-> FINANCIAL_TERMS[i].category,
             value |-> MatchedTerms(FINANCIAL_TERMS[i].terms, lowered)]]

\* extract_financial_terms(text): the dict as the sequence of its items in
\* insertion order; a category is inserted at its first matching term.
extract_financial_terms(text) ==
    LET lowered == Lower(text)
        items == [i \in 1..Len(FINANCIAL_TERMS) |->
                    [key   |-> FINANCIAL_TERMS[i].category,
                     value |-> MatchedTerms(FINANCIAL_TERMS[i].terms, lowered)]]
        Inserted(item) == item.value # <<>>
    IN  SelectSeq(items, Inserted)

\* The keys of a dict held as a sequence of items.
Keys(d) == { d[i].key : i \in 1..Len(d) }

\* d[k] for a key of the dict.
Get(d, k) == d[CHOOSE i \in 1..Len(d) : d[i].key = k].value

\* YearAt for the pattern r'(20\d{2})', without the two \b.
YearAt_NoBoundary(s, i) ==
    /\ i + 3 <= Len(s)
    /\ SubSeq(s, i, i + 1) = "20"
    /\ SubSeq(s, i + 2, i + 2) \in DigitChars
    /\ SubSeq(s, i + 3, i + 3) \in DigitChars

\* re.match of r'\b(20\d{2})\b' at position i of s.
YearAt(s, i) ==
    /\ i + 3 <= Len(s)
    /\ SubSeq(s, i, i + 1) = "20"
    /\ SubSeq(s, i + 2, i + 2) \in DigitChars
    /\ SubSeq(s, i + 3, i + 3) \in DigitChars
    /\ WordBoundary(s, i - 1)
    /\ WordBoundary(s, i + 3)

\* re.findall(r'\b(20\d{2})\b', s): the leftmost match at or after the
\* position the scan stands at, then the scan resumes behind that match.
RECURSIVE FindYearsFrom(_, _)
FindYearsFrom(s, from) ==
    LET matches == { i \in from..Len(s) : YearAt(s, i) }
    IN  IF matches = {} THEN <<>>
        ELSE LET i == CHOOSE m \in matches : \A n \in matches : m <= n
             IN  << SubSeq(s, i, i + 3) >> \o FindYearsFrom(s, i + 4)

FindYears(s) == FindYearsFrom(s, 1)

-----------------------------------------------------------------------------
(* Numbers: confidences and similarity scores are fractions <<n, d>>, d > 0 *)

Frac(n, d) == << n, d >>

FracLess(a, b) == a[1] * b[2] < b[1] * a[2]

FracEq(a, b) == a[1] * b[2] = b[1] * a[2]

FracLeq(a, b) == a[1] * b[2] <= b[1] * a[2]

\* Resolution of the similarity scores: the engine returns k / Scale, 0 <= k <= Scale.
Scale == 3

-----------------------------------------------------------------------------
(* identify_query_type without scikit-learn (lines 202-233)                 *)

\* The if / elif chain of lines 212-229, in order.
KEYWORD_RULES ==
    << [words |-> << "revenue", "sales", "earn" >>,            query_type |-> "revenue_query"],
       [words |-> << "profit", "income", "earnings" >>,        query_type |-> "net_income_query"],
       [words |-> << "asset", "debt", "liability" >>,          query_type |-> "assets_liabilities_query"],
       [words |-> << "cash", "flow", "liquidity" >>,           query_type |-> "cash_flow_query"],
       [words |-> << "growth", "growing", "increase" >>,       query_type |-> "growth_query"],
       [words |-> << "performance", "overview", "summary" >>,  query_type |-> "performance_query"],
       [words |-> << "compare", "comparison", "versus", "vs" >>, query_type |-> "comparison_query"],
       [words |-> << "trend", "pattern", "historical" >>,      query_type |-> "trend_query"],
       [words |-> << "forecast", "future", "predict", "projection" >>, query_type |-> "forecast_query"] >>

\* any(word in query_lower for word in words)
AnyWordIn(words, query_lower) ==
    \E i \in 1..Len(words) : Contains(query_lower, words[i])

\* KeywordMatch with the chain of lines 212-229 written as independent ifs:
\* the last rule that fires overwrites the earlier ones.
KeywordMatch_LastRuleWins(q) ==
    LET query_lower == Lower(q)
        firing == { i \in 1..Len(KEYWORD_RULES) : AnyWordIn(KEYWORD_RULES[i].words, query_lower) }
    IN  IF firing # {}
        THEN [best_match |-> KEYWORD_RULES[CHOOSE i \in firing : \A j \in firing : i >= j].query_type,
              confidence |-> Frac(3, 10)]
        ELSE [best_match |-> "performance_query", confidence |-> Frac(2, 10)]

\* Lines 208-233: the keyword chain, entered with best_match None and
\* confidence 0.3; the final else sets performance_query and 0.2.
KeywordMatch(q) ==
    LET query_lower == Lower(q)
        firing == { i \in 1..Len(KEYWORD_RULES) : AnyWordIn(KEYWORD_RULES[i].words, query_lower) }
    IN  IF firing # {}
        THEN [best_match |-> KEYWORD_RULES[CHOOSE i \in firing : \A j \in firing : i <= j].query_type,
              confidence |-> Frac(3, 10)]
        ELSE [best_match |-> "performance_query", confidence |-> Frac(2, 10)]

\* Lines 196-199: next(iter(financial_terms)) or None.
TermBasedMatch(terms) == IF terms # <<>> THEN terms[1].key ELSE None

\* BasicTermMatching with the keyword chain run whatever the terms gave.
BasicTermMatching_KeywordsFirst(q, term_match) == KeywordMatch(q)

\* Lines 204-233: best_match and confidence when SKLEARN_AVAILABLE is False.
BasicTermMatching(q, term_match) ==
    IF term_match # None
    THEN [best_match |-> term_match, confidence |-> Frac(5, 10)]
    ELSE KeywordMatch(q)

\* Lines 276-285: the last default, and the dict that is returned.
QueryInfo(match, conf, terms) ==
    IF match = None
    THEN [query_type |-> "performance_query", confidence |-> Frac(2, 10), financial_terms |-> terms]
    ELSE [query_type |-> match, confidence |-> conf, financial_terms |-> terms]

-----------------------------------------------------------------------------
(* analyze_query (lines 287-333)                                            *)

METRIC_KEYS == << "revenue", "net_income", "assets", "liabilities", "cash_flow" >>

\* RequestedMetrics with the key of line 318 misspelt, so that it is never found.
RequestedMetrics_MisspeltKey(terms) ==
    LET Present(k) == k # "liabilities" /\ k \in Keys(terms)
    IN  SelectSeq(METRIC_KEYS, Present)

\* Lines 308-321: the metric categories present, in the order of the ifs.
RequestedMetrics(terms) ==
    LET Present(k) == k \in Keys(terms)
    IN  SelectSeq(METRIC_KEYS, Present)

\* ComposeAnalysis with the three flags read off the classified intent.
ComposeAnalysis_FlagsFromIntent(q, query_info) ==
    LET terms == query_info.financial_terms
        years == FindYears(q)
        metrics == RequestedMetrics(terms)
    IN  [query_type      |-> query_info.query_type,
         confidence      |-> query_info.confidence,
         is_comparison   |-> query_info.query_type = "comparison_query",
         is_trend        |-> query_info.query_type = "trend_query",
         is_forecast     |-> query_info.query_type = "forecast_query",
         time_periods    |-> IF years # <<>> THEN years ELSE <<>>,
         metrics         |-> IF metrics # <<>> THEN metrics ELSE << "all" >>,
         financial_terms |-> terms]

\* ComposeAnalysis with line 331 returning metrics as collected.
ComposeAnalysis_NoAllDefault(q, query_info) ==
    LET terms == query_info.financial_terms
        years == FindYears(q)
        metrics == RequestedMetrics(terms)
    IN  [query_type      |-> query_info.query_type,
         confidence      |-> query_info.confidence,
         is_comparison   |-> "comparison" \in Keys(terms),
         is_trend        |-> "trend" \in Keys(terms),
         is_forecast     |-> "forecast" \in Keys(terms),
         time_periods    |-> IF years # <<>> THEN years ELSE <<>>,
         metrics         |-> metrics,
         financial_terms |-> terms]

\* Lines 292-333, given the dict identify_query_type returned.
ComposeAnalysis(q, query_info) ==
    LET terms == query_info.financial_terms
        years == FindYears(q)
        metrics == RequestedMetrics(terms)
    IN  [query_type      |-> query_info.query_type,
         confidence      |-> query_info.confidence,
         is_comparison   |-> "comparison" \in Keys(terms),
         is_trend        |-> "trend" \in Keys(terms),
         is_forecast     |-> "forecast" \in Keys(terms),
         time_periods    |-> IF years # <<>> THEN years ELSE <<>>,
         metrics         |-> IF metrics # <<>> THEN metrics ELSE << "all" >>,
         financial_terms |-> terms]

-----------------------------------------------------------------------------
(* identify_query_type with scikit-learn (lines 235-274)                    *)

PLACEHOLDER == "{company}"

\* template.format(company=c) for a template whose only fields are {company}.
RECURSIVE Format(_, _)
Format(template, c) ==
    LET n == Len(PLACEHOLDER)
        fields == { i \in 1..(Len(template) - n + 1) : SubSeq(template, i, i + n - 1) = PLACEHOLDER }
    IN  IF fields = {} THEN template
        ELSE LET i == CHOOSE f \in fields : \A g \in fields : f <= g
             IN  SubSeq(template, 1, i - 1) \o c
                     \o Format(SubSeq(template, i + n, Len(template)), c)

\* Lines 237-239: formatted_templates[query_type], a list of preprocessed texts.
FormattedTemplates(templates, c) ==
    [j \in 1..Len(templates) |-> preprocess_text(Format(templates[j], c))]

\* The analyzer of TfidfVectorizer() with its defaults: lower-case, then the
\* tokens r"(?u)\b\w\w+\b", i.e. the maximal runs of two or more word characters.
VectorizerTokens(text) == Runs(Lower(text), WordChars, 2)

\* Term counts of a document: token -> number of occurrences.
TermCounts(tokens) ==
    [w \in { tokens[i] : i \in 1..Len(tokens) } |->
        Cardinality({ i \in 1..Len(tokens) : tokens[i] = w })]

\* Two count vectors point the same way: same support, proportional counts.
Parallel(a, b) ==
    /\ DOMAIN a = DOMAIN b
    /\ \A v \in DOMAIN a : \A w \in DOMAIN a : a[v] * b[w] = a[w] * b[v]

\* The count vector CountVectorizer builds for one document.
CountVector(doc) == TermCounts(VectorizerTokens(doc))

\* cosine_similarity of the TF-IDF rows of two documents of one corpus, given
\* their count vectors, as what is known of it at resolution 1 / Scale: 0 when
\* the documents share no token, 1 when the vectors are parallel, strictly
\* between otherwise.
SimilarityValues(a, b) ==
    IF DOMAIN a \cap DOMAIN b = {} THEN {0}
    ELSE IF Parallel(a, b) THEN {Scale}
    ELSE 1..(Scale - 1)

\* vectorizer.fit_transform(all_texts) raises ValueError (empty vocabulary)
\* when no document holds a token.
EmptyVocabulary(vectors) ==
    \A i \in 1..Len(vectors) : DOMAIN vectors[i] = {}

\* All sequences that take their i-th element from sets[i].
Choices(sets) ==
    LET F[i \in 0..Len(sets)] ==
            IF i = 0 THEN { <<>> }
            ELSE { Append(p, x) : p \in F[i - 1], x \in sets[i] }
    IN  F[Len(sets)]

\* ScanSimilarities with line 262 reading similarity >= highest_score.
ScanSimilarities_LaterTieWins(sims, query_type, score, match) ==
    LET F[i \in 0..Len(sims)] ==
            IF i = 0 THEN << score, match >>
            ELSE LET p == F[i - 1]
                     similarity == Frac(sims[i], Scale)
                 IN  IF FracLeq(p[1], similarity)
                     THEN << similarity, query_type >>
                     ELSE p
    IN  F[Len(sims)]

\* ScanSimilarities with line 262 reading best_match is None: the first
\* similarity scored is kept.
ScanSimilarities_FirstScored(sims, query_type, score, match) ==
    LET F[i \in 0..Len(sims)] ==
            IF i = 0 THEN << score, match >>
            ELSE LET p == F[i - 1]
                     similarity == Frac(sims[i], Scale)
                 IN  IF p[2] = None
                     THEN << similarity, query_type >>
                     ELSE p
    IN  F[Len(sims)]

\* Lines 260-264: the scan of one intent's similarities; state is
\* <<highest_score, best_match>>.
ScanSimilarities(sims, query_type, score, match) ==
    LET F[i \in 0..Len(sims)] ==
            IF i = 0 THEN << score, match >>
            ELSE LET p == F[i - 1]
                     similarity == Frac(sims[i], Scale)
                 IN  IF FracLess(p[1], similarity)
                     THEN << similarity, query_type >>
                     ELSE p
    IN  F[Len(sims)]

\* AfterLoop with line 274 reading confidence = highest_score.
AfterLoop_NoDefault(match, score, term_match) ==
    [best_match |-> IF match = None THEN term_match ELSE match,
     confidence |-> score]

\* AfterLoop with line 274 reading highest_score >= 0.
AfterLoop_ZeroKept(match, score, term_match) ==
    [best_match |-> IF match = None THEN term_match ELSE match,
     confidence |-> IF FracLeq(Frac(0, 1), score) THEN score ELSE Frac(3, 10)]

\* Lines 270-274: fall back to the term-based match, then the confidence.
AfterLoop(match, score, term_match) ==
    [best_match |-> IF match = None THEN term_match ELSE match,
     confidence |-> IF FracLess(Frac(0, 1), score) THEN score ELSE Frac(3, 10)]

-----------------------------------------------------------------------------
(* Inputs                                                                   *)

\* Pieces a query is put together from: words in two letter cases, a prefix
\* that hides a word inside a longer one, a year, punctuation and white space.
Lexicon == { " ", "Revenue", "debt", "vs", "forecast", "sub", "2022" }

\* Most pieces per generated query.
MaxLexemes == 3

GeneratedQueries ==
    LET Q[n \in 0..MaxLexemes] ==
            IF n = 0 THEN { "" }
            ELSE Q[n - 1] \cup { q \o l : q \in Q[n - 1], l \in Lexicon }
    IN  Q[MaxLexemes]

\* Whole queries that are checked as written.
ExampleQueries ==
    { "What is the revenue of Acme?",
      "Compare Acme vs Globex",
      "Compare 2022 and 2022",
      "FY2023 results, 20234 units; (2021) 2024.",
      "How much revenue did Acme generate?",
      "Show me the trend in cash flow and assets",
      "subassets earned net  income",
      "Net income of Acme",
      "Profit and the bottom line",
      "net earnings",
      "The, x ?! (Net-Income's) OF 5 it. 'Growing' grows",
      " \t " }

Companies == { "Acme", "Globex" }

\* The calls that are made: the generated queries name no company and are
\* asked about one; the examples are asked about each.
Calls == (GeneratedQueries \X { "Acme" }) \cup (ExampleQueries \X Companies)

INTENTS == { QUERY_TEMPLATES[i].query_type : i \in 1..Len(QUERY_TEMPLATES) }

CATEGORIES == { FINANCIAL_TERMS[i].category : i \in 1..Len(FINANCIAL_TERMS) }

\* formatted_templates of lines 237-239 for each company, in dict order.
FORMATTED ==
    [c \in Companies |->
        [i \in 1..Len(QUERY_TEMPLATES) |->
            FormattedTemplates(QUERY_TEMPLATES[i].templates, c)]]

\* The count vectors of the formatted templates.
TEMPLATE_VECTORS ==
    [c \in Companies |->
        [i \in 1..Len(QUERY_TEMPLATES) |->
            [j \in 1..Len(FORMATTED[c][i]) |-> CountVector(FORMATTED[c][i][j])]]]

-----------------------------------------------------------------------------
(* The state machine: one call analyze_query(query, company)                *)

NoScore == Frac(-1, 1)

Init ==
    /\ SKLEARN_AVAILABLE \in BOOLEAN
    /\ \E call \in Calls : query = call[1] /\ company = call[2]
    /\ pc = "call"
    /\ preprocessed_query = None
    /\ financial_terms = <<>>
    /\ term_based_match = None
    /\ best_match = None
    /\ highest_score = NoScore
    /\ confidence = None
    /\ loop_index = 0
    /\ max_seen = -1
    /\ first_top = None
    /\ tied = FALSE
    /\ unraised = None
    /\ result = None
    /\ analysis_data = None
    /\ response = None
    /\ heap = None
    /\ calls = None
    /\ script = None
    /\ session_state = None

\* analyze_query when SKLEARN_AVAILABLE is False: lines 189-233, 276-285 of
\* identify_query_type and lines 292-333 of analyze_query.
AnalyzeBasic ==
    /\ pc = "call"
    /\ ~SKLEARN_AVAILABLE
    /\ LET terms == extract_financial_terms(query)
           term_match == TermBasedMatch(terms)
           m == BasicTermMatching(query, term_match)
           info == QueryInfo(m.best_match, m.confidence, terms)
       IN  /\ preprocessed_query' = preprocess_text(query)
           /\ financial_terms' = terms
           /\ term_based_match' = term_match
           /\ best_match' = info.query_type
           /\ confidence' = info.confidence
           /\ result' = ComposeAnalysis(query, info)
    /\ pc' = "done"
    /\ UNCHANGED << SKLEARN_AVAILABLE, query, company, highest_score, loop_index, max_seen, first_top, tied, unraised >>
    /\ UNCHANGED env_vars

\* Lines 189-243 when SKLEARN_AVAILABLE is True: up to the start of the loop.
BeginTfidf ==
    /\ pc = "call"
    /\ SKLEARN_AVAILABLE
    /\ preprocessed_query' = preprocess_text(query)
    /\ financial_terms' = extract_financial_terms(query)
    /\ term_based_match' = TermBasedMatch(financial_terms')
    /\ best_match' = None
    /\ highest_score' = NoScore
    /\ loop_index' = 1
    /\ pc' = "loop"
    /\ UNCHANGED << SKLEARN_AVAILABLE, query, company, confidence, max_seen, first_top, tied, unraised, result >>
    /\ UNCHANGED env_vars

\* One pass of the loop of lines 245-264 in which the library calls return.
TfidfScored ==
    /\ pc = "loop"
    /\ loop_index <= Len(QUERY_TEMPLATES)
    /\ LET query_type == QUERY_TEMPLATES[loop_index].query_type
           query_vector == CountVector(preprocessed_query)
           templates == TEMPLATE_VECTORS[company][loop_index]
           values == [j \in 1..Len(templates) |-> SimilarityValues(query_vector, templates[j])]
       IN  /\ ~EmptyVocabulary(<< query_vector >> \o templates)
           /\ \E sims \in Choices(values) :
                LET after == ScanSimilarities(sims, query_type, highest_score, best_match)
                    top == CHOOSE x \in { sims[j] : j \in 1..Len(sims) } :
                               \A j \in 1..Len(sims) : sims[j] <= x
                IN  /\ highest_score' = after[1]
                    /\ best_match' = after[2]
                    /\ max_seen' = IF top > max_seen THEN top ELSE max_seen
                    /\ first_top' = IF top > max_seen THEN query_type ELSE first_top
                    /\ tied' = IF top > max_seen THEN FALSE ELSE (tied \/ top = max_seen)
                    /\ unraised' = IF unraised = None THEN None
                                    ELSE IF top > unraised[1] THEN << top, query_type >>
                                    ELSE unraised
    /\ loop_index' = loop_index + 1
    /\ UNCHANGED << SKLEARN_AVAILABLE, query, company, pc, preprocessed_query, financial_terms,
                    term_based_match, confidence, result >>
    /\ UNCHANGED env_vars

\* TfidfRaised without the except clause: the exception leaves analyze_query.
TfidfRaised_Uncaught ==
    /\ pc = "loop"
    /\ loop_index <= Len(QUERY_TEMPLATES)
    /\ pc' = "raised"
    /\ UNCHANGED << SKLEARN_AVAILABLE, query, company, preprocessed_query, financial_terms,
                    term_based_match, best_match, highest_score, confidence, loop_index,
                    max_seen, first_top, tied, unraised, result >>
    /\ UNCHANGED env_vars

\* The most templates of an intent that are scored before a call raises.
MaxScoredBeforeRaise == 1

\* One pass of the loop in which a call inside the try block raises: the
\* except clause of lines 265-267 prints and continues with the next intent.
\* The call that raises is one of lines 248-257 (scored = 0) or the
\* cosine_similarity of line 261 for template scored + 1, after the
\* templates before it went through lines 261-264.
TfidfRaised ==
    /\ pc = "loop"
    /\ loop_index <= Len(QUERY_TEMPLATES)
    /\ LET query_type == QUERY_TEMPLATES[loop_index].query_type
           query_vector == CountVector(preprocessed_query)
           templates == TEMPLATE_VECTORS[company][loop_index]
       IN  \E scored \in { n \in 0..MaxScoredBeforeRaise : n < Len(templates) } :
             LET values == [j \in 1..scored |-> SimilarityValues(query_vector, templates[j])]
             IN  \E sims \in Choices(values) :
                   LET after == ScanSimilarities(sims, query_type, highest_score, best_match)
                       top == IF scored = 0 THEN -1
                              ELSE CHOOSE x \in { sims[j] : j \in 1..scored } :
                                       \A j \in 1..scored : sims[j] <= x
                   IN  /\ highest_score' = after[1]
                       /\ best_match' = after[2]
                       /\ max_seen' = IF top > max_seen THEN top ELSE max_seen
                       /\ first_top' = IF top > max_seen THEN query_type ELSE first_top
                       /\ tied' = IF top > max_seen THEN FALSE
                                  ELSE (tied \/ (top >= 0 /\ top = max_seen))
                       /\ UNCHANGED unraised
    /\ loop_index' = loop_index + 1
    /\ UNCHANGED << SKLEARN_AVAILABLE, query, company, pc, preprocessed_query, financial_terms,
                    term_based_match, confidence, result >>
    /\ UNCHANGED env_vars

\* After the loop: lines 269-285 of identify_query_type and lines 292-333 of
\* analyze_query.
FinishTfidf ==
    /\ pc = "loop"
    /\ loop_index > Len(QUERY_TEMPLATES)
    /\ LET a == AfterLoop(best_match, highest_score, term_based_match)
           info == QueryInfo(a.best_match, a.confidence, financial_terms)
       IN  /\ best_match' = info.query_type
           /\ confidence' = info.confidence
           /\ result' = ComposeAnalysis(query, info)
    /\ pc' = "done"
    /\ UNCHANGED << SKLEARN_AVAILABLE, query, company, preprocessed_query, financial_terms,
                    term_based_match, highest_score, loop_index, max_seen, first_top, tied, unraised >>
    /\ UNCHANGED env_vars

Next ==
    \/ AnalyzeBasic
    \/ BeginTfidf
    \/ TfidfScored
    \/ TfidfRaised
    \/ FinishTfidf

Spec == Init /\ [][Next]_vars

\* The calls followed with a record of the passes that did not raise.
RaiseQueries ==
    { "", "vs", "Revenue", "debt Revenue", "What is the revenue of Acme?",
      "Acme versus Globex liquidity" }

RaiseInit ==
    /\ SKLEARN_AVAILABLE \in BOOLEAN
    /\ query \in RaiseQueries /\ company = "Acme"
    /\ pc = "call"
    /\ preprocessed_query = None
    /\ financial_terms = <<>>
    /\ term_based_match = None
    /\ best_match = None
    /\ highest_score = NoScore
    /\ confidence = None
    /\ loop_index = 0
    /\ max_seen = -1
    /\ first_top = None
    /\ tied = FALSE
    /\ unraised = << -1, None >>
    /\ result = None
    /\ analysis_data = None
    /\ response = None
    /\ heap = None
    /\ calls = None
    /\ script = None
    /\ session_state = None

RaiseSpec == RaiseInit /\ [][Next]_vars

-----------------------------------------------------------------------------
(* financial_analysis.py: generate_response (lines 267-427)                  *)

\* A row of the dataframe: the required columns of the CSV, and the columns
\* whose cell in this row holds text instead of a number.
Row(name, year, revenue, net_income, assets, liabilities, cash_flow) ==
    [Company |-> name, FiscalYear |-> year, TotalRevenue |-> revenue,
     NetIncome |-> net_income, TotalAssets |-> assets, TotalLiabilities |-> liabilities,
     CashFlow |-> cash_flow, text |-> {}]

\* a - b for fractions.
FracSub(a, b) == Frac(a[1] * b[2] - b[1] * a[2], a[2] * b[2])

\* The columns analyze_data adds in lines 188-196: a float division, which
\* gives inf or nan and does not raise when the divisor is 0.
ROA(row) == Frac(row.NetIncome * 100, row.TotalAssets)

ProfitMargin(row) == Frac(row.NetIncome * 100, row.TotalRevenue)

DebtToAssetRatio(row) == Frac(row.TotalLiabilities, row.TotalAssets)

\* The first row of rows for the fiscal year: .iloc[0] of the filtered frame.
FirstRow(rows, year) ==
    rows[CHOOSE i \in 1..Len(rows) :
             rows[i].FiscalYear = year /\ \A k \in 1..(i - 1) : rows[k].FiscalYear # year]

\* CompanyRecord with the previous year taken to be the latest year before
\* latest_year, whatever the gap.
CompanyRecord_AnyEarlierYear(company_data) ==
    LET latest_year == CHOOSE y \in { company_data[i].FiscalYear : i \in 1..Len(company_data) } :
                           \A i \in 1..Len(company_data) : company_data[i].FiscalYear <= y
        latest_data == FirstRow(company_data, latest_year)
        earlier == { company_data[i].FiscalYear : i \in 1..Len(company_data) } \ { latest_year }
        previous_year == CHOOSE y \in earlier : \A z \in earlier : z <= y
        IsPrevious(r) == r.FiscalYear = previous_year
        base == [latest_year |-> latest_year,
                 total_revenue |-> latest_data.TotalRevenue,
                 net_income |-> latest_data.NetIncome,
                 total_assets |-> latest_data.TotalAssets,
                 total_liabilities |-> latest_data.TotalLiabilities,
                 cash_flow |-> latest_data.CashFlow,
                 roa |-> ROA(latest_data),
                 profit_margin |-> ProfitMargin(latest_data),
                 debt_ratio |-> DebtToAssetRatio(latest_data)]
    IN  IF earlier # {}
        THEN LET previous_data == FirstRow(company_data, previous_year)
                 revenue_change == latest_data.TotalRevenue - previous_data.TotalRevenue
                 net_income_change == latest_data.NetIncome - previous_data.NetIncome
                 cash_flow_change == latest_data.CashFlow - previous_data.CashFlow
             IN  base @@
                 [revenue_change |-> revenue_change,
                  revenue_pct |-> Frac(revenue_change * 100, previous_data.TotalRevenue),
                  net_income_change |-> net_income_change,
                  net_income_pct |-> Frac(net_income_change * 100, previous_data.NetIncome),
                  cash_flow_change |-> cash_flow_change,
                  cash_flow_pct |-> Frac(cash_flow_change * 100, previous_data.CashFlow),
                  roa_change |-> FracSub(ROA(latest_data), ROA(previous_data)),
                  profit_margin_change |->
                      FracSub(ProfitMargin(latest_data), ProfitMargin(previous_data)),
                  debt_ratio_change |->
                      FracSub(DebtToAssetRatio(latest_data), DebtToAssetRatio(previous_data))]
        ELSE base

\* Lines 202-262 of analyze_data for the rows of one company (the yearly
\* rows it also stores are left out).
CompanyRecord(company_data) ==
    LET latest_year == CHOOSE y \in { company_data[i].FiscalYear : i \in 1..Len(company_data) } :
                           \A i \in 1..Len(company_data) : company_data[i].FiscalYear <= y
        latest_data == FirstRow(company_data, latest_year)
        previous_year == latest_year - 1
        IsPrevious(r) == r.FiscalYear = previous_year
        base == [latest_year |-> latest_year,
                 total_revenue |-> latest_data.TotalRevenue,
                 net_income |-> latest_data.NetIncome,
                 total_assets |-> latest_data.TotalAssets,
                 total_liabilities |-> latest_data.TotalLiabilities,
                 cash_flow |-> latest_data.CashFlow,
                 roa |-> ROA(latest_data),
                 profit_margin |-> ProfitMargin(latest_data),
                 debt_ratio |-> DebtToAssetRatio(latest_data)]
    IN  IF \E i \in 1..Len(company_data) : IsPrevious(company_data[i])
        THEN LET previous_data == FirstRow(company_data, previous_year)
                 revenue_change == latest_data.TotalRevenue - previous_data.TotalRevenue
                 net_income_change == latest_data.NetIncome - previous_data.NetIncome
                 cash_flow_change == latest_data.CashFlow - previous_data.CashFlow
             IN  base @@
                 [revenue_change |-> revenue_change,
                  revenue_pct |-> Frac(revenue_change * 100, previous_data.TotalRevenue),
                  net_income_change |-> net_income_change,
                  net_income_pct |-> Frac(net_income_change * 100, previous_data.NetIncome),
                  cash_flow_change |-> cash_flow_change,
                  cash_flow_pct |-> Frac(cash_flow_change * 100, previous_data.CashFlow),
                  roa_change |-> FracSub(ROA(latest_data), ROA(previous_data)),
                  profit_margin_change |->
                      FracSub(ProfitMargin(latest_data), ProfitMargin(previous_data)),
                  debt_ratio_change |->
                      FracSub(DebtToAssetRatio(latest_data), DebtToAssetRatio(previous_data))]
        ELSE base

\* df['Company'].unique(): the companies in order of first appearance.
UniqueCompanies(df) ==
    LET first == { i \in 1..Len(df) : \A k \in 1..(i - 1) : df[k].Company # df[i].Company }
        at == Ascending(first)
    IN  [n \in 1..Len(at) |-> df[at[n]].Company]

\* analyze_data(df) (lines 179-265) for a frame whose columns are numeric: a
\* dict company -> record, in the order of df['Company'].unique().
analyze_data(df) ==
    LET companies == UniqueCompanies(df)
    IN  [n \in 1..Len(companies) |->
            LET OfCompany(r) == r.Company = companies[n]
            IN  [key |-> companies[n], value |-> CompanyRecord(SelectSeq(df, OfCompany))]]

\* A record analyze_data builds for a company with a previous fiscal year
\* (lines 229-249) ...
RECORD_WITH_PRIOR ==
    CompanyRecord(<< Row("Acme", 2023, 120, 10, 300, 150, 25),
                     Row("Acme", 2022, 100, 15, 250, 150, 20) >>)

\* ... and for a company with one fiscal year only (lines 252-262).
RECORD_SINGLE_YEAR ==
    CompanyRecord(<< Row("Globex", 2023, 80, -4, 100, 90, -1) >>)

\* The analysis_data mappings generate_response is called with: dicts as
\* sequences of items, in insertion order.
AnalysisDataSets ==
    { <<>>,
      << [key |-> "Acme", value |-> RECORD_WITH_PRIOR] >>,
      << [key |-> "Globex", value |-> RECORD_SINGLE_YEAR] >>,
      << [key |-> "Acme", value |-> RECORD_SINGLE_YEAR],
         [key |-> "Globex", value |-> RECORD_WITH_PRIOR] >> }

\* What generate_response returns, as far as it does not depend on how the
\* numbers are formatted: the branch taken, the text up to the first number
\* (the whole text where there is none), and the companies whose record was read.
Reply(kind, opening, read) == [kind |-> kind, opening |-> opening, read |-> read]

\* ResponseByFlags with the comparison branch tested before the forecast
\* branch.
ResponseByFlags_ComparisonFirst(is_forecast, is_comparison, data, c) ==
    IF is_comparison /\ Len(data) <= 1
    THEN Reply("comparison_alone",
               "No other companies available to compare with " \o c \o ".", { c })
    ELSE IF is_comparison
    THEN Reply("comparison",
               "Comparing " \o c \o " with other companies in the dataset:\n",
               Keys(data))
    ELSE IF is_forecast
    THEN Reply("forecast",
               "Based on " \o c \o "'s historical data, a simple linear projection suggests:\n",
               { c })
    ELSE Reply("not_recognized",
               "I don't have enough information to answer that query about " \o c
                 \o ". Try asking about revenue, net income, assets, liabilities, "
                 \o "cash flow, growth, or overall performance.", { c })

\* Lines 367-427: the branches reached when query_type is none of the six
\* values tested in lines 285-365.
ResponseByFlags(is_forecast, is_comparison, data, c) ==
    IF is_forecast
    THEN Reply("forecast",
               "Based on " \o c \o "'s historical data, a simple linear projection suggests:\n",
               { c })
    ELSE IF is_comparison /\ Len(data) <= 1
    THEN Reply("comparison_alone",
               "No other companies available to compare with " \o c \o ".", { c })
    ELSE IF is_comparison
    THEN Reply("comparison",
               "Comparing " \o c \o " with other companies in the dataset:\n",
               Keys(data))
    ELSE Reply("not_recognized",
               "I don't have enough information to answer that query about " \o c
                 \o ". Try asking about revenue, net income, assets, liabilities, "
                 \o "cash flow, growth, or overall performance.", { c })

\* Lines 276-427: the reply about a company that is a key of data.
ResponseForKnown(query_analysis, data, c) ==
    LET company_data == Get(data, c)
        query_type == query_analysis.query_type
        is_comparison == query_analysis.is_comparison
        is_trend == query_analysis.is_trend
        is_forecast == query_analysis.is_forecast
        Has(k) == k \in DOMAIN company_data
    IN  CASE query_type = "revenue_query" ->
                IF is_trend /\ Has("revenue_pct")
                THEN Reply("revenue_trend",
                           c \o "'s revenue "
                             \o (IF FracLess(Frac(0, 1), company_data.revenue_pct) THEN "grew" ELSE "declined")
                             \o " by ", { c })
                ELSE IF is_trend
                THEN Reply("revenue_latest", c \o "'s revenue for ", { c })
                ELSE Reply("revenue_total", c \o "'s total revenue for ", { c })
          [] query_type = "net_income_query" ->
                IF is_trend /\ Has("net_income_change")
                THEN Reply("net_income_trend",
                           c \o "'s net income "
                             \o (IF company_data.net_income_change > 0 THEN "increased" ELSE "decreased")
                             \o " from $", { c })
                ELSE Reply("net_income", c \o "'s net income for ", { c })
          [] query_type = "assets_liabilities_query" ->
                Reply("assets_liabilities", c \o "'s total assets for ", { c })
          [] query_type = "cash_flow_query" ->
                IF is_trend /\ Has("cash_flow_change")
                THEN Reply("cash_flow_trend",
                           c \o "'s cash flow from operating activities "
                             \o (IF company_data.cash_flow_change > 0 THEN "increased" ELSE "decreased")
                             \o " from $", { c })
                ELSE Reply("cash_flow", c \o "'s cash flow from operating activities for ", { c })
          [] query_type = "growth_query" ->
                Reply("growth", c \o "'s growth metrics for ", { c })
          [] query_type = "performance_query" ->
                Reply("performance", c \o "'s financial performance in ", { c })
          [] OTHER -> ResponseByFlags(is_forecast, is_comparison, data, c)

\* GenerateResponse without the check of lines 273-274: line 276 looks the
\* company up and raises KeyError.
GenerateResponse_NoCompanyCheck(query_analysis, data, c) ==
    IF c \notin Keys(data)
    THEN Reply("raised", "KeyError", { c })
    ELSE ResponseForKnown(query_analysis, data, c)

\* Lines 272-427, given the analysis of line 270.
GenerateResponse(query_analysis, data, c) ==
    IF c \notin Keys(data)
    THEN Reply("unknown_company", "Sorry, I don't have information about " \o c \o ".", {})
    ELSE ResponseForKnown(query_analysis, data, c)

\* generate_response(query, analysis_data, company) after its call of
\* analyze_query (line 270) has returned: lines 272-427.
Respond ==
    /\ pc = "done"
    /\ \E data \in AnalysisDataSets :
          /\ analysis_data' = data
          /\ response' = GenerateResponse(result, data, company)
    /\ pc' = "responded"
    /\ UNCHANGED << SKLEARN_AVAILABLE, query, company, preprocessed_query, financial_terms,
                    term_based_match, best_match, highest_score, confidence, loop_index,
                    max_seen, first_top, tied, unraised, result, heap, calls, app_vars >>

\* One call generate_response(query, analysis_data, company).
ResponseNext == Next \/ Respond

ResponseSpec == Init /\ [][ResponseNext]_vars

-----------------------------------------------------------------------------
(* Concurrent calls of analyze_query on the shared module objects           *)

\* The calls that run at the same time.
Procs == { 1, 2 }

\* What they are asked.
ConcQueries == { "", "vs", "debt Revenue" }

\* References to list objects: <<0, i>> is the list FINANCIAL_TERMS holds for
\* its i-th category, <<p, i>> the list call p builds for that category.
Refs == ({ 0 } \cup Procs) \X (1..Len(FINANCIAL_TERMS))

\* The similarity engine as one fixed function among those SimilarityValues
\* allows: the calls that are compared use the same engine.
DeterminedSimilarity(a, b) ==
    CHOOSE v \in SimilarityValues(a, b) : \A w \in SimilarityValues(a, b) : v <= w

\* Lines 245-267 with that engine: each intent in turn; the state is
\* <<highest_score, best_match>>.
ScanIntents(query_vector, c) ==
    LET F[k \in 0..Len(QUERY_TEMPLATES)] ==
            IF k = 0 THEN << NoScore, None >>
            ELSE LET templates == TEMPLATE_VECTORS[c][k]
                     sims == [j \in 1..Len(templates) |->
                                 DeterminedSimilarity(query_vector, templates[j])]
                 IN  IF EmptyVocabulary(<< query_vector >> \o templates)
                     THEN F[k - 1]
                     ELSE CHOOSE after \in
                              { ScanSimilarities(sims, QUERY_TEMPLATES[k].query_type,
                                                 before[1], before[2]) :
                                  before \in { F[k - 1] } } : TRUE
    IN  F[Len(QUERY_TEMPLATES)]

\* identify_query_type (lines 195-285) once financial_terms is known, with
\* that engine.
ClassifyWith(q, c, terms, sklearn) ==
    IF ~sklearn
    THEN LET m == BasicTermMatching(q, TermBasedMatch(terms))
         IN  QueryInfo(m.best_match, m.confidence, terms)
    ELSE LET last == CHOOSE scanned \in
                         { ScanIntents(query_vector, c) :
                             query_vector \in { CountVector(preprocess_text(q)) } } : TRUE
             a == AfterLoop(last[2], last[1], TermBasedMatch(terms))
         IN  QueryInfo(a.best_match, a.confidence, terms)

\* A dict of list references read through the heap h.
Deref(items, h) ==
    IF items = <<>> THEN <<>>
    ELSE [n \in 1..Len(items) |-> [key |-> items[n].key, value |-> h[items[n].ref]]]

\* ExtractStep with the matches kept by filtering the configuration list in
\* place (terms[:] = matched) and storing that same list in the result.
ExtractStep_InPlace(p, i, h, extracted, lowered) ==
    LET terms == h[<< 0, i >>]
        matched == MatchedTerms(terms, lowered)
    IN  IF matched = <<>>
        THEN [heap |-> h, extracted |-> extracted]
        ELSE [heap |-> [h EXCEPT ![<< 0, i >>] = matched],
              extracted |-> Append(extracted, [key |-> FINANCIAL_TERMS[i].category,
                                               ref |-> << 0, i >>])]

\* Lines 178-183 for the i-th category, run by call p: the terms are read from
\* the shared list; at the first match a new list is made (line 182) and the
\* matches are appended to it (line 183).
ExtractStep(p, i, h, extracted, lowered) ==
    LET terms == h[<< 0, i >>]
        matched == MatchedTerms(terms, lowered)
    IN  IF matched = <<>>
        THEN [heap |-> h, extracted |-> extracted]
        ELSE [heap |-> [h EXCEPT ![<< p, i >>] = matched],
              extracted |-> Append(extracted, [key |-> FINANCIAL_TERMS[i].category,
                                               ref |-> << p, i >>])]

ConcInit ==
    /\ SKLEARN_AVAILABLE \in BOOLEAN
    /\ query = "" /\ company = "Acme" /\ pc = "concurrent"
    /\ preprocessed_query = None
    /\ financial_terms = <<>>
    /\ term_based_match = None
    /\ best_match = None
    /\ highest_score = NoScore
    /\ confidence = None
    /\ loop_index = 0
    /\ max_seen = -1
    /\ first_top = None
    /\ tied = FALSE
    /\ unraised = None
    /\ result = None
    /\ analysis_data = None
    /\ response = None
    /\ script = None
    /\ session_state = None
    /\ heap = [r \in Refs |-> IF r[1] = 0 THEN FINANCIAL_TERMS[r[2]].terms ELSE None]
    /\ calls \in [Procs -> { [pc |-> "extract", query |-> q, company |-> "Acme", index |-> 1,
                               extracted_terms |-> <<>>, result |-> None] : q \in ConcQueries }]

\* Call p runs one pass of the outer loop of extract_financial_terms.
ExtractCategory(p) ==
    /\ calls[p].pc = "extract"
    /\ calls[p].index <= Len(FINANCIAL_TERMS)
    /\ LET step == ExtractStep(p, calls[p].index, heap, calls[p].extracted_terms,
                               Lower(calls[p].query))
       IN  /\ heap' = step.heap
           /\ calls' = [calls EXCEPT ![p].extracted_terms = step.extracted,
                                     ![p].index = @ + 1]
    /\ UNCHANGED << SKLEARN_AVAILABLE, query, company, pc, preprocessed_query, financial_terms,
                    term_based_match, best_match, highest_score, confidence, loop_index,
                    max_seen, first_top, tied, unraised, result, analysis_data, response, app_vars >>

\* Call p runs the rest: lines 185-285 of identify_query_type and lines
\* 292-333 of analyze_query; the mapping returned holds the lists it built.
FinishCall(p) ==
    /\ calls[p].pc = "extract"
    /\ calls[p].index > Len(FINANCIAL_TERMS)
    /\ LET terms == Deref(calls[p].extracted_terms, heap)
           info == ClassifyWith(calls[p].query, calls[p].company, terms, SKLEARN_AVAILABLE)
           analysis == ComposeAnalysis(calls[p].query, info)
       IN  calls' = [calls EXCEPT
                        ![p].result = [analysis EXCEPT !.financial_terms = calls[p].extracted_terms],
                        ![p].pc = "done"]
    /\ UNCHANGED << SKLEARN_AVAILABLE, query, company, pc, preprocessed_query, financial_terms,
                    term_based_match, best_match, highest_score, confidence, loop_index,
                    max_seen, first_top, tied, unraised, result, analysis_data, response, heap, app_vars >>

ConcNext == \E p \in Procs : ExtractCategory(p) \/ FinishCall(p)

ConcSpec == ConcInit /\ [][ConcNext]_vars

-----------------------------------------------------------------------------
(* app.py and attached_assets/app.py: the pages that keep session state     *)

APP == "app.py"

\* A session value that may be None: the empty set for None, {x} for x.
Unset == {}

Some(x) == { x }

The(s) == CHOOSE x \in s : TRUE

ATTACHED_APP == "attached_assets/app.py"

\* The frame load_data returns when no file is found (lines 58-69), with the
\* companies of the model and small figures: three fiscal years each.
SAMPLE_DATA ==
    << Row("Acme", 2024, 24, 8, 50, 24, 12), Row("Acme", 2023, 20, 7, 40, 20, 8),
       Row("Acme", 2022, 19, 7, 36, 19, 9),
       Row("Globex", 2024, 10, 1, 12, 5, 2), Row("Globex", 2023, 9, 2, 10, 4, 1),
       Row("Globex", 2022, 8, 1, 8, 3, 1) >>

\* What the user may upload: a file pd.read_csv cannot read, a file without a
\* required column, a frame with text in a numeric column, a frame whose
\* companies have a gap year and a single year, and a frame in ascending
\* order of year.
UploadedFiles ==
    { [parses |-> FALSE, columns |-> FALSE, df |-> <<>>],
      [parses |-> TRUE, columns |-> FALSE,
       df |-> << Row("Acme", 2023, 20, 7, 40, 20, 8) >>],
      [parses |-> TRUE, columns |-> TRUE,
       df |-> << [Row("Globex", 2023, 0, 2, 10, 4, 1) EXCEPT !.text = { "TotalRevenue" }] >>],
      [parses |-> TRUE, columns |-> TRUE,
       df |-> << Row("Acme", 2023, 20, 7, 40, 20, 8), Row("Acme", 2021, 15, 5, 30, 18, 6),
                 Row("Globex", 2023, 9, 2, 10, 4, 1) >>],
      [parses |-> TRUE, columns |-> TRUE,
       df |-> << Row("Globex", 2022, 8, 1, 8, 3, 1), Row("Globex", 2023, 9, 2, 10, 4, 1) >>] }

\* Every figure of the frame is a number: the arithmetic of analyze_data
\* (lines 182-196) raises TypeError on text.
Numeric(df) == \A i \in 1..Len(df) : df[i].text = {}

\* The questions typed into the chat.
AppQueries == { "", "Revenue", "vs" }

\* Most questions asked in one session.
MaxSubmissions == 2

\* analyze_query(query, company) with one similarity engine.
AnalyzeQuery(q, c) ==
    ComposeAnalysis(q, ClassifyWith(q, c, extract_financial_terms(q), SKLEARN_AVAILABLE))

\* Submit with the test of user_query left out of line 324.
Submit_EmptyToo(chat_history, user_query, data, selected_company, bot) ==
    chat_history \o
        << [role |-> "user", content |-> user_query],
           [role |-> bot,
            content |-> GenerateResponse(AnalyzeQuery(user_query, selected_company),
                                         data, selected_company)] >>

\* app.py lines 324-332, attached_assets/app.py lines 215-224: the history
\* after the button was pressed with user_query in the text field.
Submit(chat_history, user_query, data, selected_company, bot) ==
    IF user_query = "" THEN chat_history
    ELSE chat_history \o
             << [role |-> "user", content |-> user_query],
                [role |-> bot,
                 content |-> GenerateResponse(AnalyzeQuery(user_query, selected_company),
                                              data, selected_company)] >>

AppInit ==
    /\ SKLEARN_AVAILABLE \in BOOLEAN
    /\ query = "" /\ company = "Acme" /\ pc = "app"
    /\ preprocessed_query = None
    /\ financial_terms = <<>>
    /\ term_based_match = None
    /\ best_match = None
    /\ highest_score = NoScore
    /\ confidence = None
    /\ loop_index = 0
    /\ max_seen = -1
    /\ first_top = None
    /\ tied = FALSE
    /\ unraised = None
    /\ result = None
    /\ analysis_data = None
    /\ response = None
    /\ heap = None
    /\ calls = None
    /\ script \in { APP, ATTACHED_APP }
    /\ session_state = [df |-> Unset, analysis_data |-> Unset, chat_history |-> <<>>]

\* Data Upload page, a CSV file chosen (app.py lines 122-159).
UploadCsv ==
    /\ script = APP
    /\ \E file \in UploadedFiles :
          session_state' =
              IF ~file.parses THEN session_state
              ELSE IF ~file.columns THEN session_state
              ELSE IF ~Numeric(file.df) THEN [session_state EXCEPT !.df = Some(file.df)]
              ELSE [session_state EXCEPT !.df = Some(file.df),
                                         !.analysis_data = Some(analyze_data(file.df))]
    /\ UNCHANGED << SKLEARN_AVAILABLE, query, company, pc, preprocessed_query, financial_terms,
                    term_based_match, best_match, highest_score, confidence, loop_index,
                    max_seen, first_top, tied, unraised, result, analysis_data, response,
                    heap, calls, script >>

\* Data Upload page, Load Sample Data pressed (app.py lines 161-175).
LoadSampleData ==
    /\ script = APP
    /\ session_state' = [session_state EXCEPT !.df = Some(SAMPLE_DATA),
                                              !.analysis_data = Some(analyze_data(SAMPLE_DATA))]
    /\ UNCHANGED << SKLEARN_AVAILABLE, query, company, pc, preprocessed_query, financial_terms,
                    term_based_match, best_match, highest_score, confidence, loop_index,
                    max_seen, first_top, tied, unraised, result, analysis_data, response,
                    heap, calls, script >>

\* Chatbot page, Ask pressed (app.py lines 284-335).
AskChatbot ==
    /\ script = APP
    /\ session_state.df # Unset /\ session_state.analysis_data # Unset
    /\ Len(session_state.chat_history) < 2 * MaxSubmissions
    /\ \E user_query \in AppQueries :
       \E n \in 1..Len(The(session_state.df)) :
          session_state' =
              [session_state EXCEPT !.chat_history =
                  Submit(@, user_query, The(session_state.analysis_data),
                         The(session_state.df)[n].Company, "bot")]
    /\ UNCHANGED << SKLEARN_AVAILABLE, query, company, pc, preprocessed_query, financial_terms,
                    term_based_match, best_match, highest_score, confidence, loop_index,
                    max_seen, first_top, tied, unraised, result, analysis_data, response,
                    heap, calls, script >>

\* attached_assets/app.py, Ask Question pressed (lines 215-242); df and
\* analysis_data are rebuilt by every run of the script (lines 122-132).
AskQuestion ==
    /\ script = ATTACHED_APP
    /\ Len(session_state.chat_history) < 2 * MaxSubmissions
    /\ \E user_query \in AppQueries :
       \E df \in { SAMPLE_DATA } \cup { f.df : f \in { g \in UploadedFiles :
                                                          g.parses /\ g.columns /\ Numeric(g.df) } } :
       \E n \in 1..Len(df) :
          session_state' =
              [session_state EXCEPT !.chat_history =
                  Submit(@, user_query, analyze_data(df), df[n].Company, "assistant")]
    /\ UNCHANGED << SKLEARN_AVAILABLE, query, company, pc, preprocessed_query, financial_terms,
                    term_based_match, best_match, highest_score, confidence, loop_index,
                    max_seen, first_top, tied, unraised, result, analysis_data, response,
                    heap, calls, script >>

\* attached_assets/app.py, Clear Chat History pressed (lines 244-246).
ClearChatHistory ==
    /\ script = ATTACHED_APP
    /\ session_state' = [session_state EXCEPT !.chat_history = <<>>]
    /\ UNCHANGED << SKLEARN_AVAILABLE, query, company, pc, preprocessed_query, financial_terms,
                    term_based_match, best_match, highest_score, confidence, loop_index,
                    max_seen, first_top, tied, unraised, result, analysis_data, response,
                    heap, calls, script >>

AppNext ==
    \/ UploadCsv
    \/ LoadSampleData
    \/ AskChatbot
    \/ AskQuestion
    \/ ClearChatHistory

AppSpec == AppInit /\ [][AppNext]_vars

-----------------------------------------------------------------------------
(* Properties                                                               *)

Done == pc = "done"

IsNumber(c) == c \in Int \X (Nat \ {0})

InUnitInterval(c) == FracLeq(Frac(0, 1), c) /\ FracLeq(c, Frac(1, 1))

Elements(seq) == { seq[i] : i \in 1..Len(seq) }

\* C1: the intent analyze_query returns is one of the nine intent identifiers
\* or null, never the name of a term category.
C1_IntentIsAnIntent ==
    Done => result.query_type \in INTENTS \cup { None }

\* C2: "What is the revenue of Acme?" asked about Acme is classified
\* revenue_query, with and without the similarity engine.
C2_RevenueQuestion ==
    (Done /\ query = "What is the revenue of Acme?" /\ company = "Acme")
        => result.query_type = "revenue_query"

\* C3: the empty query is classified performance_query with confidence 0.2,
\* whichever classification path is active.
C3_EmptyQueryDefault ==
    (Done /\ query = "")
        => /\ result.query_type = "performance_query"
           /\ FracEq(result.confidence, Frac(2, 10))

ANALYSIS_FIELDS ==
    { "query_type", "confidence", "is_comparison", "is_trend", "is_forecast",
      "time_periods", "metrics", "financial_terms" }

\* No exception has left the call; a call that has not returned has a next
\* step (before the loop one of the two paths is taken, inside it the pass
\* either ends normally, ends in the except clause, or the loop is over); and
\* what a finished call returned holds all eight fields of the analysis.
ReturnedAnalysis ==
    /\ pc \in { "call", "loop", "done" }
    /\ pc = "call" => SKLEARN_AVAILABLE \in BOOLEAN
    /\ pc = "loop" => ENABLED (TfidfRaised \/ FinishTfidf)
    /\ Done => /\ DOMAIN result = ANALYSIS_FIELDS
               /\ result.query_type # None
               /\ IsNumber(result.confidence)
               /\ result.is_comparison \in BOOLEAN
               /\ result.is_trend \in BOOLEAN
               /\ result.is_forecast \in BOOLEAN

\* The number of steps a call can still take, at most.
StepsLeft ==
    IF pc = "call" THEN Len(QUERY_TEMPLATES) + 3
    ELSE IF pc = "loop" THEN Len(QUERY_TEMPLATES) + 2 - loop_index
    ELSE 0

\* C4: for every query and company, on either path of the classifier,
\* analyze_query never raises, it terminates (every step brings the return
\* nearer and a call that has not returned can step), and what it returns
\* holds all eight fields of the analysis.
C4_AlwaysReturnsAnalysis ==
    /\ []ReturnedAnalysis
    /\ [](StepsLeft >= 0)
    /\ [][StepsLeft' < StepsLeft]_vars

\* C4 witness: a call with scikit-learn in which every pass of the loop raised
\* and which returned all the same.
C4_Witness ==
    Done /\ SKLEARN_AVAILABLE /\ max_seen = -1 /\ query = "" /\ DOMAIN result = ANALYSIS_FIELDS

YearLikePositions(q) ==
    { i \in 1..(Len(q) - 3) :
        /\ SubSeq(q, i, i + 1) = "20"
        /\ CharAt(q, i + 2) \in DigitChars
        /\ CharAt(q, i + 3) \in DigitChars }

\* The substrings of q at the given places, from left to right.
SubstringsAt(q, places) ==
    LET order == Ascending(places)
    IN  [k \in 1..Len(order) |-> SubSeq(q, order[k], order[k] + 3)]

\* C6, as claimed: time_periods lists every 4-digit substring that starts
\* with "20", from left to right, also next to letters or further digits.
C6_EveryYearLikeSubstring ==
    Done => result.time_periods = SubstringsAt(query, YearLikePositions(query))

\* C6, amended: time_periods lists, from left to right and with repetitions,
\* exactly the 4-digit substrings starting with "20" that have no letter,
\* digit or underscore directly before or after them.
C6_YearsStandingAlone ==
    Done => result.time_periods =
                SubstringsAt(query,
                    { i \in YearLikePositions(query) :
                        /\ CharAt(query, i - 1) \notin WordChars
                        /\ CharAt(query, i + 4) \notin WordChars })

\* C6 witness: years glued to letters or digits are left out, the others kept.
C6_Witness ==
    /\ Done
    /\ query = "FY2023 results, 20234 units; (2021) 2024."
    /\ result.time_periods = << "2021", "2024" >>

\* C7: metrics is ["all"] exactly when no metric category is a key of
\* financial_terms; otherwise it is the metric categories present, in the
\* fixed order, without "all".
C7_MetricsFromTerms ==
    Done =>
        LET present == { k \in Elements(METRIC_KEYS) : k \in Keys(result.financial_terms) }
            m == result.metrics
        IN  /\ (m = << "all" >>) <=> (present = {})
            /\ present # {} =>
                 /\ Elements(m) = present
                 /\ Len(m) = Cardinality(present)
                 /\ \A i \in 1..Len(m) : \A j \in 1..Len(m) :
                        i < j => \E a \in 1..Len(METRIC_KEYS) : \E b \in 1..Len(METRIC_KEYS) :
                                    a < b /\ METRIC_KEYS[a] = m[i] /\ METRIC_KEYS[b] = m[j]

\* C7 witness: two metric categories named in the opposite order in the query.
C7_Witness ==
    Done /\ query = "debt Revenue" /\ result.metrics = << "revenue", "liabilities" >>

\* C8: each of the three flags is true exactly when its category is a key of
\* the returned financial_terms, whatever the intent.
C8_FlagsFromTerms ==
    Done =>
        /\ result.is_comparison <=> ("comparison" \in Keys(result.financial_terms))
        /\ result.is_trend <=> ("trend" \in Keys(result.financial_terms))
        /\ result.is_forecast <=> ("forecast" \in Keys(result.financial_terms))

\* C8 witness: intent forecast_query returned with is_forecast false.
C8_Witness ==
    /\ Done
    /\ result.query_type = "forecast_query"
    /\ ~result.is_forecast
    /\ "forecast" \notin Keys(result.financial_terms)

\* "revenue" stands in q as a whole word, in any letter case.
HasRevenueWord(q) ==
    \E i \in 1..(Len(q) - 6) :
        /\ Lower(SubSeq(q, i, i + 6)) = "revenue"
        /\ CharAt(q, i - 1) \notin WordChars
        /\ CharAt(q, i + 7) \notin WordChars

\* C9: a query with "revenue" as a whole word, in any letter case, has the key
\* revenue in financial_terms, with "revenue" among its matched forms.
C9_RevenueWordFound ==
    (Done /\ HasRevenueWord(query)) =>
        /\ "revenue" \in Keys(result.financial_terms)
        /\ "revenue" \in Elements(Get(result.financial_terms, "revenue"))
        /\ result.financial_terms = extract_financial_terms(query)

\* C9 witness: the word written with a capital letter, after another word.
C9_Witness ==
    /\ Done
    /\ query = "sub Revenue"
    /\ Get(result.financial_terms, "revenue") = << "revenue" >>

\* C10: "Compare Acme vs Globex" gives is_comparison true and a comparison
\* entry of financial_terms that holds "vs" or "compare".
C10_CompareExample ==
    (Done /\ query = "Compare Acme vs Globex") =>
        /\ result.is_comparison
        /\ "comparison" \in Keys(result.financial_terms)
        /\ Get(result.financial_terms, "comparison") # <<>>
        /\ \/ "vs" \in Elements(Get(result.financial_terms, "comparison"))
           \/ "compare" \in Elements(Get(result.financial_terms, "comparison"))

\* C10 witness: the example asked about the other company.
C10_Witness ==
    /\ Done
    /\ query = "Compare Acme vs Globex" /\ company = "Globex"
    /\ result.is_comparison
    /\ Get(result.financial_terms, "comparison") = << "compare", "vs" >>

-----------------------------------------------------------------------------
(* Properties of the classifier's paths                                     *)

\* C11: with scikit-learn, once a similarity has been scored the intent held,
\* and returned, is the one whose templates were first to reach the top score
\* in the order of QUERY_TEMPLATES: a later intent that only equals the top
\* score does not replace it.
C11_FirstTopWins ==
    (pc \in { "loop", "done" } /\ SKLEARN_AVAILABLE /\ max_seen >= 0)
        => /\ best_match = first_top
           /\ FracEq(highest_score, Frac(max_seen, Scale))
           /\ Done => result.query_type = first_top

\* C11 witness: a positive top score that a later intent equalled, and the
\* earlier intent returned.
C11_Witness ==
    /\ Done /\ SKLEARN_AVAILABLE
    /\ tied /\ max_seen > 0
    /\ first_top # "forecast_query"
    /\ result.query_type = first_top

\* C12: every key of the mapping extract_financial_terms returns maps to a
\* non-empty list; a category none of whose synonyms matched is absent.
C12_NoEmptyCategory ==
    /\ \A i \in 1..Len(financial_terms) : financial_terms[i].value # <<>>
    /\ Done =>
          /\ result.financial_terms = financial_terms
          /\ \A k \in Keys(result.financial_terms) : Len(Get(result.financial_terms, k)) >= 1
          /\ \A i \in 1..Len(FINANCIAL_TERMS) :
                (\A j \in 1..Len(FINANCIAL_TERMS[i].terms) :
                    ~SearchWholeWord(FINANCIAL_TERMS[i].terms[j], Lower(query)))
                    => FINANCIAL_TERMS[i].category \notin Keys(result.financial_terms)

\* C12 witness: two categories matched, the other eight absent.
C12_Witness ==
    /\ Done
    /\ query = "vs debt"
    /\ Keys(result.financial_terms) = { "liabilities", "comparison" }
    /\ Len(result.financial_terms) = 2

\* q is empty or holds white space only.
IsBlank(q) == \A i \in 1..Len(q) : SubSeq(q, i, i) \in Whitespace

\* C13: for an empty or whitespace-only query extract_financial_terms gives
\* the empty mapping, and analyze_query returns financial_terms = {},
\* metrics = ["all"], time_periods = [] and the three flags false.
C13_BlankQuery ==
    (pc \in { "loop", "done" } /\ IsBlank(query))
        => /\ financial_terms = <<>>
           /\ Done => /\ result.financial_terms = <<>>
                       /\ result.metrics = << "all" >>
                       /\ result.time_periods = <<>>
                       /\ ~result.is_comparison
                       /\ ~result.is_trend
                       /\ ~result.is_forecast

\* C13 witness: a query of a blank, a tab and a blank, analysed with scikit-learn.
C13_Witness ==
    /\ Done /\ SKLEARN_AVAILABLE
    /\ query = " \t "
    /\ result.financial_terms = <<>>
    /\ result.metrics = << "all" >>

\* term stands in text with no letter, digit or underscore directly before
\* or after it.
OccursAsWord(term, text) ==
    \E i \in 1..(Len(text) - Len(term) + 1) :
        LET last == i + Len(term) - 1
        IN  /\ \A k \in 0..(Len(term) - 1) : SubSeq(text, i + k, i + k) = SubSeq(term, k + 1, k + 1)
            /\ i = 1 \/ SubSeq(text, i - 1, i - 1) \notin WordChars
            /\ last = Len(text) \/ SubSeq(text, last + 1, last + 1) \notin WordChars

\* The synonyms recorded under a category, none if the category is absent.
Recorded(terms, category) ==
    IF category \in Keys(terms) THEN Elements(Get(terms, category)) ELSE {}

\* C14: a synonym is recorded exactly when it stands in the lower-cased text
\* between word boundaries: not when it is only part of a longer word, and a
\* synonym of several words only when they stand together, spaced as written.
C14_WholeWordsOnly ==
    Done =>
        \A i \in 1..Len(FINANCIAL_TERMS) : \A j \in 1..Len(FINANCIAL_TERMS[i].terms) :
            LET term == FINANCIAL_TERMS[i].terms[j]
            IN  (term \in Recorded(result.financial_terms, FINANCIAL_TERMS[i].category))
                    <=> OccursAsWord(term, Lower(query))

\* C14 witness: "assets" inside "subassets", "earn" inside "earned" and "net
\* income" written with two blanks are not recorded; "income" alone is.
C14_Witness ==
    /\ Done
    /\ query = "subassets earned net  income"
    /\ result.financial_terms = << [key |-> "revenue", value |-> << "income" >>],
                                   [key |-> "net_income", value |-> << "income" >>] >>

\* C17: with scikit-learn, when no template of any intent has a positive
\* similarity to the query, the intent is the term-based match, the first
\* category of financial_terms, and not one taken from the template bank.
C17_NoSignalFallsBack ==
    (Done /\ SKLEARN_AVAILABLE /\ max_seen <= 0 /\ financial_terms # <<>>)
        => result.query_type = financial_terms[1].key

\* The places in FINANCIAL_TERMS of the categories a synonym of which stands
\* in q as a whole word.
MatchingCategories(q) ==
    { i \in 1..Len(FINANCIAL_TERMS) :
        \E j \in 1..Len(FINANCIAL_TERMS[i].terms) :
            OccursAsWord(FINANCIAL_TERMS[i].terms[j], Lower(q)) }

\* C18: without scikit-learn, a query that matches a term category gets as
\* intent the first matching category in the order of FINANCIAL_TERMS, with
\* confidence 0.5; the keyword chain has no say.
C18_FirstCategoryIsIntent ==
    (Done /\ ~SKLEARN_AVAILABLE /\ MatchingCategories(query) # {})
        => LET first == CHOOSE i \in MatchingCategories(query) :
                            \A j \in MatchingCategories(query) : i <= j
           IN  /\ result.query_type = FINANCIAL_TERMS[first].category
               /\ result.query_type = financial_terms[1].key
               /\ FracEq(result.confidence, Frac(5, 10))

\* C18 witness: liabilities is named before revenue in the query and revenue
\* comes first in FINANCIAL_TERMS; the keyword chain would have said revenue_query.
C18_Witness ==
    /\ Done /\ ~SKLEARN_AVAILABLE
    /\ query = "debt Revenue"
    /\ result.query_type = "revenue"
    /\ result.confidence = Frac(5, 10)

\* The priority order of the keyword rules.
RULE_ORDER ==
    << "revenue_query", "net_income_query", "assets_liabilities_query", "cash_flow_query",
       "growth_query", "performance_query", "comparison_query", "trend_query", "forecast_query" >>

\* The places of the keyword rules one of whose words is a substring of the
\* lower-cased q.
FiringRules(q) ==
    { i \in 1..Len(KEYWORD_RULES) :
        \E j \in 1..Len(KEYWORD_RULES[i].words) :
            LET word == KEYWORD_RULES[i].words[j]
            IN  \E k \in 1..(Len(q) - Len(word) + 1) :
                    Lower(SubSeq(q, k, k + Len(word) - 1)) = word }

\* C19: without scikit-learn, a query that matches no term category and in
\* which a keyword rule fires gets the intent of the first rule that fires, in
\* the fixed priority order, with confidence 0.3.
C19_FirstKeywordRule ==
    /\ \A i \in 1..Len(KEYWORD_RULES) : KEYWORD_RULES[i].query_type = RULE_ORDER[i]
    /\ (Done /\ ~SKLEARN_AVAILABLE /\ MatchingCategories(query) = {} /\ FiringRules(query) # {})
          => LET first == CHOOSE i \in FiringRules(query) : \A j \in FiringRules(query) : i <= j
             IN  /\ result.query_type = RULE_ORDER[first]
                 /\ FracEq(result.confidence, Frac(3, 10))

\* C19 witness: one long word that hides "debt" and "revenue": no category
\* matches, the rules of revenue_query and assets_liabilities_query both fire.
C19_Witness ==
    /\ Done /\ ~SKLEARN_AVAILABLE
    /\ query = "subdebtRevenue"
    /\ result.financial_terms = <<>>
    /\ FiringRules(query) = { 1, 3 }
    /\ result.query_type = "revenue_query"
    /\ result.confidence = Frac(3, 10)

\* C20: analyze_query never returns a null intent, and when no template has
\* scored positively, no term category matches and no keyword rule fires, it
\* returns performance_query with confidence 0.2.
C20_NoMatchDefault ==
    Done =>
        /\ result.query_type # None
        /\ (max_seen <= 0 /\ MatchingCategories(query) = {} /\ FiringRules(query) = {})
              => /\ result.query_type = "performance_query"
                 /\ FracEq(result.confidence, Frac(2, 10))

\* C16: if the company is not a key of analysis_data, generate_response
\* returns "Sorry, I don't have information about {company}." whatever the
\* intent and the flags, and reads no metrics record.
C16_UnknownCompany ==
    (pc = "responded" /\ company \notin Keys(analysis_data))
        => /\ response.opening = "Sorry, I don't have information about " \o company \o "."
           /\ response.kind = "unknown_company"
           /\ response.read = {}

\* C16 witness: a forecast question about a company the data does not hold.
C16_Witness ==
    /\ pc = "responded"
    /\ company = "Acme" /\ Keys(analysis_data) = { "Globex" }
    /\ result.is_forecast
    /\ response.opening = "Sorry, I don't have information about Acme."

\* What analyze_query returns for q and c when it runs alone.
AloneResult(q, c, sklearn) ==
    ComposeAnalysis(q, ClassifyWith(q, c, extract_financial_terms(q), sklearn))

\* The configuration lists are as written in the module; what a finished call
\* returned, read now, is what the call returns when run alone, and each list
\* of its financial_terms is one the call built itself.
NoInterference ==
    /\ \A i \in 1..Len(FINANCIAL_TERMS) : heap[<< 0, i >>] = FINANCIAL_TERMS[i].terms
    /\ \A p \in Procs :
          calls[p].pc = "done" =>
              /\ [calls[p].result EXCEPT !.financial_terms = Deref(@, heap)]
                     = AloneResult(calls[p].query, calls[p].company, SKLEARN_AVAILABLE)
              /\ \A n \in 1..Len(calls[p].result.financial_terms) :
                     calls[p].result.financial_terms[n].ref[1] = p

\* C15: concurrent calls write no shared object: the lists of FINANCIAL_TERMS
\* and the availability flag never change, the lists a call returns are its
\* own, and every call returns what it returns when run alone, however the
\* calls interleave.
C15_NoSharedWrites ==
    /\ []NoInterference
    /\ [][SKLEARN_AVAILABLE' = SKLEARN_AVAILABLE]_vars

\* C15 witness: call 2 has returned its comparison list while call 1 is in
\* the middle of its loop, one list built and more categories to visit.
C15_Witness ==
    /\ pc = "concurrent"
    /\ calls[2].pc = "done" /\ calls[2].query = "vs"
    /\ Deref(calls[2].result.financial_terms, heap)
           = << [key |-> "comparison", value |-> << "vs" >>] >>
    /\ calls[1].pc = "extract" /\ calls[1].query = "debt Revenue"
    /\ calls[1].index = 3
    /\ Len(calls[1].extracted_terms) = 1

-----------------------------------------------------------------------------
(* Properties of the similarity path, of preprocess_text and of the pages   *)

\* One pass of the loop that scored: the intent held changes only to the
\* intent of this pass, and only when this pass raised the top score; the
\* score held is then that top score.
ScoredPass ==
    (pc = "loop" /\ pc' = "loop" /\ max_seen' # max_seen) =>
        /\ max_seen' > max_seen
        /\ best_match' = QUERY_TEMPLATES[loop_index].query_type
        /\ first_top' = best_match'
        /\ FracEq(highest_score', Frac(max_seen', Scale))

\* A pass that did not raise the top score leaves the intent and score held.
OtherPass ==
    (pc = "loop" /\ pc' = "loop" /\ max_seen' = max_seen /\ max_seen >= 0) =>
        /\ best_match' = best_match
        /\ highest_score' = highest_score

\* C21: with scikit-learn, the intent returned is the intent of a pass whose
\* best template reached the maximum similarity over all pairs scored, and
\* when that maximum is positive the confidence returned is that maximum.
C21_MaxScoreWins ==
    /\ [][ScoredPass /\ OtherPass]_vars
    /\ []((Done /\ SKLEARN_AVAILABLE /\ max_seen >= 0) => result.query_type = best_match)
    /\ []((Done /\ SKLEARN_AVAILABLE /\ max_seen > 0) =>
              FracEq(result.confidence, Frac(max_seen, Scale)))

\* C21 witness: the maximum is positive, below 1, and was reached by an
\* intent after the first only; that intent and that score are returned.
C21_Witness ==
    /\ Done /\ SKLEARN_AVAILABLE
    /\ ~tied /\ max_seen \in 1..(Scale - 1)
    /\ result.query_type = first_top /\ first_top # "revenue_query"
    /\ result.confidence = Frac(max_seen, Scale)

\* C22: with scikit-learn, the intents whose pass raised are skipped: the
\* result is the strict-maximum choice over the intents whose pass did not
\* raise, and when every pass raised it is the term-based match with
\* confidence 0.3, or performance_query with confidence 0.2 when no category
\* matched.
C22_FailingIntentsSkipped ==
    (Done /\ SKLEARN_AVAILABLE) =>
        IF unraised[1] >= 0
        THEN /\ result.query_type = unraised[2]
             /\ FracEq(result.confidence,
                       IF unraised[1] > 0 THEN Frac(unraised[1], Scale) ELSE Frac(3, 10))
        ELSE IF term_based_match # None
        THEN /\ result.query_type = term_based_match
             /\ result.confidence = Frac(3, 10)
        ELSE /\ result.query_type = "performance_query"
             /\ result.confidence = Frac(2, 10)

\* C23: with scikit-learn, when the highest similarity seen is 0, or none was
\* scored, the confidence returned is 0.3, except that it is 0.2 when the
\* intent was still None at line 277; a confidence of 0 is never returned.
C23_DefaultConfidence ==
    (Done /\ SKLEARN_AVAILABLE) =>
        /\ result.confidence[1] # 0
        /\ max_seen <= 0 =>
              result.confidence = IF max_seen = -1 /\ term_based_match = None
                                  THEN Frac(2, 10) ELSE Frac(3, 10)

\* C23 witness: every similarity scored was 0 and the call returned 0.3.
C23_Witness ==
    /\ Done /\ SKLEARN_AVAILABLE
    /\ max_seen = 0 /\ highest_score = Frac(0, Scale)
    /\ result.confidence = Frac(3, 10)

\* The pieces of s between single spaces.
Pieces(s) == Runs(s, CharsOf(s) \ { " " }, 1)

\* a is b with some elements left out.
Embeds(a, b) ==
    LET at[i \in 0..Len(a)] ==
            IF i = 0 THEN 0
            ELSE IF \E j \in (at[i - 1] + 1)..Len(b) : b[j] = a[i]
                 THEN CHOOSE j \in (at[i - 1] + 1)..Len(b) :
                          /\ b[j] = a[i]
                          /\ \A k \in (at[i - 1] + 1)..(j - 1) : b[k] # a[i]
                 ELSE Len(b) + 1
    IN  \A i \in 1..Len(a) : at[i] <= Len(b)

\* The words of the lower-cased text with their outer punctuation removed.
StrippedWords(text) ==
    LET words == Split(Lower(text))
    IN  [i \in 1..Len(words) |-> Strip(words[i], StripChars)]

\* C24: the output of preprocess_text is its tokens joined by single spaces,
\* without a space at either end; every token is lower-case, at least two
\* characters long, not a stop word, and neither begins nor ends with a
\* stripped character; the tokens are words of the input, unchanged but for
\* case and outer punctuation, in their order, and every such word that is
\* not dropped by these rules is among them.
C24_PreprocessedShape ==
    pc # "call" =>
        LET tokens == Pieces(preprocessed_query)
            source == StrippedWords(query)
        IN  /\ preprocessed_query = Join(tokens)
            /\ \A i \in 1..Len(tokens) :
                  /\ Len(tokens[i]) >= 2
                  /\ tokens[i] = Lower(tokens[i])
                  /\ tokens[i] \notin stop_words
                  /\ SubSeq(tokens[i], 1, 1) \notin StripChars
                  /\ SubSeq(tokens[i], Len(tokens[i]), Len(tokens[i])) \notin StripChars
            /\ Embeds(tokens, source)
            /\ \A i \in 1..Len(source) :
                  (Len(source[i]) >= 2 /\ source[i] \notin stop_words)
                      => \E j \in 1..Len(tokens) : tokens[j] = source[i]

\* C24 witness: a text with a stop word before a comma, a one-letter word,
\* a word of punctuation only, capitals and quoted words.
C24_Witness ==
    /\ pc # "call"
    /\ query = "The, x ?! (Net-Income's) OF 5 it. 'Growing' grows"
    /\ preprocessed_query = "net-income's growing grows"

\* C26: preprocess_text applied to its own output returns it unchanged.
C26_PreprocessIdempotent ==
    pc # "call" => preprocess_text(preprocessed_query) = preprocessed_query

\* C26 witness: an output that still holds punctuation inside a token, from
\* a text whose stop words stood next to punctuation.
C26_Witness ==
    /\ pc = "done"
    /\ preprocessed_query = "net-income's growing grows"
    /\ preprocess_text(query) # query

\* The synonyms of net_income that hold a synonym of revenue as a word.
SHARED_SYNONYMS == { "income", "earnings", "net income", "net earnings" }

\* C27: when net_income is a key of financial_terms through 'income',
\* 'earnings', 'net income' or 'net earnings', revenue is a key too, the
\* term-based match is revenue and the metrics returned begin with revenue,
\* net_income; net_income is a key without revenue only when what matched
\* is 'profit' or 'bottom line' alone.
C27_NetIncomeBringsRevenue ==
    (pc # "call" /\ "net_income" \in Keys(financial_terms)) =>
        LET matched == Elements(Get(financial_terms, "net_income"))
        IN  /\ matched \cap SHARED_SYNONYMS # {} =>
                  /\ "revenue" \in Keys(financial_terms)
                  /\ term_based_match = "revenue"
                  /\ Done => /\ Len(result.metrics) >= 2
                             /\ SubSeq(result.metrics, 1, 2) = << "revenue", "net_income" >>
            /\ "revenue" \notin Keys(financial_terms) =>
                  /\ matched \subseteq { "profit", "bottom line" }
                  /\ term_based_match = "net_income"

\* C27 witness: 'net earnings' alone brings both categories ...
C27_Witness ==
    /\ Done /\ query = "net earnings"
    /\ financial_terms = << [key |-> "revenue", value |-> << "earnings" >>],
                            [key |-> "net_income", value |-> << "earnings", "net earnings" >>] >>
    /\ result.metrics = << "revenue", "net_income" >>

\* The values of query_type that generate_response has a branch for.
ANSWERED_TYPES ==
    { "revenue_query", "net_income_query", "assets_liabilities_query", "cash_flow_query",
      "growth_query", "performance_query" }

DELTA_KEYS ==
    { "revenue_change", "revenue_pct", "net_income_change", "net_income_pct",
      "cash_flow_change", "cash_flow_pct", "roa_change", "profit_margin_change",
      "debt_ratio_change" }

\* The fiscal years of company c in the frame.
YearsOf(df, c) == { df[i].FiscalYear : i \in { k \in 1..Len(df) : df[k].Company = c } }

\* The frame has a row of c for the year before the latest year of c.
HasPriorYear(df, c) ==
    \E y \in YearsOf(df, c) : (\A z \in YearsOf(df, c) : z <= y) /\ (y - 1) \in YearsOf(df, c)

\* data has one record per company of the frame, and a record holds every
\* year-over-year key when the company has a row for the year before its
\* latest year, and none of them otherwise.
DeltasFollowPriorYear(data, df) ==
    /\ Keys(data) = { df[i].Company : i \in 1..Len(df) }
    /\ \A c \in Keys(data) :
          IF HasPriorYear(df, c)
          THEN DELTA_KEYS \subseteq DOMAIN Get(data, c)
          ELSE DELTA_KEYS \cap DOMAIN Get(data, c) = {}

\* C25: whenever the Data Upload page stores the result of analyze_data, the
\* record of each company of the frame stored with it holds the
\* year-over-year keys if and only if the company has a row for the fiscal
\* year before its latest one; a single year, or earlier years that leave a
\* gap, give a record without them.
C25_DeltasIffPriorYear ==
    [][session_state.analysis_data' # session_state.analysis_data =>
          DeltasFollowPriorYear(The(session_state.analysis_data'), The(session_state.df'))]_vars

\* C25 witness: a frame stored and analysed in which Acme has 2023 and 2021
\* and Globex has 2023 only; neither record holds a year-over-year key.
C25_Witness ==
    /\ script = APP /\ session_state.df # Unset /\ session_state.analysis_data # Unset
    /\ YearsOf(The(session_state.df), "Acme") = { 2021, 2023 }
    /\ YearsOf(The(session_state.df), "Globex") = { 2023 }
    /\ Keys(The(session_state.analysis_data)) = { "Acme", "Globex" }
    /\ "revenue_change" \notin DOMAIN Get(The(session_state.analysis_data), "Acme")
    /\ "revenue_change" \notin DOMAIN Get(The(session_state.analysis_data), "Globex")

\* The frames whose analysis a chat answer may be drawn from.
AnalysedFrames ==
    { SAMPLE_DATA } \cup
    { f.df : f \in { g \in UploadedFiles : g.parses /\ g.columns /\ Numeric(g.df) } }

\* The entry answers the question: it is what generate_response returns for
\* it, for some company and some analysed frame.
Answers(entry, question) ==
    \E df \in AnalysedFrames : \E c \in Companies :
        entry.content = GenerateResponse(AnalyzeQuery(question, c), analyze_data(df), c)

\* The history is pairs: a question that is not empty, then its answer.
ChatInPairs ==
    LET h == session_state.chat_history
    IN  /\ Len(h) % 2 = 0
        /\ \A k \in 1..(Len(h) \div 2) :
              /\ h[2 * k - 1].role = "user"
              /\ h[2 * k - 1].content # ""
              /\ h[2 * k].role = (IF script = APP THEN "bot" ELSE "assistant")
              /\ Answers(h[2 * k], h[2 * k - 1].content)

\* A step changes the history by adding one pair at its end or, in
\* attached_assets/app.py only, by emptying it.
ChatStep ==
    LET h == session_state.chat_history
        after == session_state.chat_history'
    IN  after # h =>
          \/ Len(after) = Len(h) + 2 /\ SubSeq(after, 1, Len(h)) = h
          \/ script = ATTACHED_APP /\ after = <<>>

\* C29: chat_history has even length and alternates a user entry holding a
\* non-empty question with the bot (assistant) entry holding the response
\* generated for that question; it only grows by such a pair, so an empty
\* question leaves it as it is, or is emptied by Clear Chat History.
C29_ChatAlternates == []ChatInPairs /\ [][ChatStep]_vars

\* C29 witness: two questions asked and answered in app.py, the second
\* after an empty submission could have been made.
C29_Witness ==
    /\ script = APP
    /\ Len(session_state.chat_history) = 4
    /\ session_state.chat_history[1].content = "vs"
    /\ session_state.chat_history[3].content = "Revenue"
    /\ session_state.chat_history[2].content # session_state.chat_history[4].content

\* C30: in app.py, df and analysis_data are both None, or analysis_data is
\* the result of analyze_data on the frame stored in df.
C30_FrameAndAnalysisAgree ==
    script = APP =>
        \/ session_state.df = Unset /\ session_state.analysis_data = Unset
        \/ /\ session_state.df # Unset /\ session_state.analysis_data # Unset
           /\ Numeric(The(session_state.df))
           /\ The(session_state.analysis_data) = analyze_data(The(session_state.df))

====
